---------------------------- MODULE Spec2Model ----------------------------
(***************************************************************************)
(* Model of src/src/lib/liblibai.ts (class LiblibAIService): the job       *)
(* poller waitAppResult with its status query getComfyStatus, the two-step *)
(* upload uploadFile / getUploadSignature / uploadToOSS, and the job       *)
(* submission runComfy / generateImage.                                    *)
(*                                                                         *)
(* An async method is cut at its awaits: one action per stretch of code    *)
(* that runs between two suspension points.  Replies of the remote         *)
(* services are inputs, drawn from small sets.                             *)
(*                                                                         *)
(* JavaScript values are tagged records [t |-> <typeof>, v |-> <value>].   *)
(* A string is a tuple of fragments and concatenation is \o: a string the  *)
(* code inspects character by character (file names, image references) is  *)
(* a tuple of one-character fragments; an Error message is the tuple of    *)
(* the literal pieces of its template and of the values put into it, and   *)
(* message.includes(w) is membership of the fragment w.                    *)
(***************************************************************************)
EXTENDS Integers, Sequences, FiniteSets, TLC

VARIABLES
    \* ---- waitAppResult (one call) ----
    pollPc,        \* "idle" | "query" (about to await getComfyStatus) | "sleep" (awaiting the timer) | "done"
    maxAttempts,   \* the parameter maxAttempts
    attempt,       \* the loop variable attempt
    polled,        \* replies of the status queries issued so far, in order (one per query)
    sleeps,        \* number of setTimeout waits started so far
    interval,      \* the parameter interval
    timers,        \* the setTimeout waits started so far: the query each follows and its delay
    statusReqs,    \* status queries issued so far: the path and the signatureParams of each
    pollResult,    \* how the call ended: NoResult, Returned(url) or Threw(message)
    \* ---- uploadFile (one call) ----
    upPc,          \* "idle" | "auth" (awaiting the authorization POST) | "upload" (awaiting the fetch) | "done"
    upFilename,    \* the parameter filename
    authReqs,      \* authorization requests issued so far: the data of each
    authReplies,   \* replies to them
    uploadReqs,    \* storage uploads issued so far: the url and the form of each
    uploadReplies, \* replies to them
    upSig,         \* signatureData
    upResult,      \* how the call ended
    \* ---- runComfy / generateImage (one call) ----
    subPc,         \* "idle" | "submit" (awaiting the POST) | "done"
    subInput,      \* the method called and the image reference it was given
    subReqs,       \* submission requests issued so far: the path and the image reference in the body
    subReplies,    \* replies to them
    subResult,     \* how the call ended
    \* ---- generateUrlSignature ----
    signCalls,     \* number of calls of generateUrlSignature so far
    digest,        \* the base64 digest of the call looked at on its own
    signature,     \* the signature made of it
    signed,        \* whether that call was made
    \* ---- a second waitAppResult call, for another job ----
    other          \* its pc, parameter maxAttempts, local attempt, replies, requests, outcome

pollVars == <<pollPc, maxAttempts, attempt, polled, sleeps, interval, timers, statusReqs, pollResult>>
upVars   == <<upPc, upFilename, authReqs, authReplies, uploadReqs, uploadReplies, upSig, upResult>>
subVars  == <<subPc, subInput, subReqs, subReplies, subResult>>
signVars == <<digest, signature, signed>>
vars     == <<pollVars, upVars, subVars, signCalls, signVars, other>>

\* what the steps of one method leave alone
notPoll == <<upVars, subVars, signVars, other>>
notUp   == <<pollVars, subVars, signVars, other>>
notSub  == <<pollVars, upVars, signVars, other>>

-----------------------------------------------------------------------------
(* Bounds of the model *)

\* largest maxAttempts a call is started with
MaxAttemptsBound == 4

\* largest number of dot-separated pieces of a file name
MaxSegments == 3

\* largest number of base64 characters of a digest, padding not counted
MaxDigestLen == 3

\* largest maxAttempts of the polling loop that runs beside an upload and a submission
MaxFlowAttempts == 3

\* largest maxAttempts of two polling loops that run side by side
MaxTwoAttempts == 2

-----------------------------------------------------------------------------
(* JavaScript values *)

Undefined == [t |-> "undefined"]
Num(n)    == [t |-> "number", v |-> n]
Str(s)    == [t |-> "string", v |-> s]
Arr(s)    == [t |-> "array", v |-> s]

\* ToBoolean, as used by `x || y`, `x && y` and `if (x)`
Truthy(x) ==
    CASE x.t = "undefined" -> FALSE
      [] x.t = "null"      -> FALSE
      [] x.t = "number"    -> x.v # 0
      [] x.t = "string"    -> x.v # <<>>
      [] OTHER             -> TRUE

\* how a call ended
NoResult     == [kind |-> "none"]
Returned(v)  == [kind |-> "returned", value |-> v]
Threw(m)     == [kind |-> "threw", message |-> m]

\* String.prototype.includes on an Error message
Includes(message, w) == \E i \in DOMAIN message : message[i] = w

-----------------------------------------------------------------------------
(* generateUrlSignature / buildSignatureParams *)

\* ReplaceAll, replacing the first occurrence only (a pattern without /g)
ReplaceAll_First(s, c, r) ==
    [i \in 1..Len(s) |->
        IF s[i] = c /\ \A h \in 1..(i - 1) : s[h] # c THEN r ELSE s[i]]

\* String.prototype.replace(/c/g, r) for a one-character pattern
ReplaceAll(s, c, r) == [i \in 1..Len(s) |-> IF s[i] = c THEN r ELSE s[i]]

\* String.prototype.replace(/=+$/, "")
RECURSIVE StripTrailingEquals(_)
StripTrailingEquals(s) ==
    IF s # <<>> /\ s[Len(s)] = "="
    THEN StripTrailingEquals(SubSeq(s, 1, Len(s) - 1))
    ELSE s

\* hash.replace(/\+/g, "-").replace(/\//g, "_").replace(/=+$/, "")
UrlSafe(hash) ==
    StripTrailingEquals(ReplaceAll(ReplaceAll(hash, "+", "-"), "/", "_"))

\* base64 digests CryptoJS may give: characters of the base64 alphabet, then
\* up to two '='
Base64Chars == {"A", "z", "9", "+", "/"}
Base64Digests ==
    {[i \in 1..(Len(body) + k) |-> IF i <= Len(body) THEN body[i] ELSE "="] :
        body \in UNION {[1..n -> Base64Chars] : n \in 0..MaxDigestLen}, k \in 0..2}

\* buildSignatureParams, handing out the parameters of the first call again
buildSignatureParams_Cached(path, call) ==
    [AccessKey |-> "apiKey",
     Signature |-> [of |-> path, timestamp |-> 1, signatureNonce |-> 1],
     Timestamp |-> 1,
     SignatureNonce |-> 1]

\* generateUrlSignature(path) in its call number `call`: the number stands for
\* the timestamp read and the nonce drawn by that call, and the signature is
\* the HMAC of path, timestamp and nonce
generateUrlSignature(path, call) ==
    [signature |-> [of |-> path, timestamp |-> call, signatureNonce |-> call],
     timestamp |-> call,
     signatureNonce |-> call]

\* buildSignatureParams(path) calling generateUrlSignature for the `call`-th time
buildSignatureParams(path, call) ==
    LET s == generateUrlSignature(path, call) IN
    [AccessKey |-> "apiKey",
     Signature |-> s.signature,
     Timestamp |-> s.timestamp,
     SignatureNonce |-> s.signatureNonce]

SignInit ==
    /\ signCalls = 0
    /\ digest = <<>>
    /\ signature = <<>>
    /\ signed = FALSE

\* one call of generateUrlSignature whose HMAC comes out as `hash`
GenerateUrlSignature(hash) ==
    /\ ~signed
    /\ signed' = TRUE
    /\ digest' = hash
    /\ signature' = UrlSafe(hash)
    /\ signCalls' = signCalls + 1
    /\ UNCHANGED <<pollVars, upVars, subVars, other>>

SignNext == \E hash \in Base64Digests : GenerateUrlSignature(hash)

-----------------------------------------------------------------------------
(* waitAppResult / getComfyStatus *)

\* enum GenerateStatus
PENDING    == 1
PROCESSING == 2
GENERATED  == 3
AUDITING   == 4
SUCCESS    == 5
FAILED     == 6
TIMEOUT    == 7

\* status payloads (response.data.data) the remote API may answer with
Images   == {Undefined, Arr(<<>>), Arr(<<[imageUrl |-> "u1"]>>),
             Arr(<<[imageUrl |-> "u2"], [imageUrl |-> "u1"]>>)}
Reasons  == {Undefined, Str(<<>>), Str(<<"r1">>)}
Payloads ==
    {[generateStatus |-> s, images |-> Undefined, failReason |-> Undefined] :
        s \in {PENDING, PROCESSING, GENERATED, AUDITING}}
    \cup {[generateStatus |-> SUCCESS, images |-> i, failReason |-> Undefined] : i \in Images}
    \cup {[generateStatus |-> s, images |-> Undefined, failReason |-> r] :
        s \in {FAILED, TIMEOUT}, r \in Reasons}

\* what the POST of getComfyStatus may come back with: axios rejects without a
\* response (network error), rejects with an HTTP error response, or resolves
\* with a body whose code and data may each be missing
StatusReplies ==
    {[net |-> "NetworkError"], [net |-> "HttpError"]}
    \cup {[net |-> "ok", code |-> c, msg |-> <<"m1">>, data |-> Undefined] :
            c \in {Num(0), Num(1), Undefined}}
    \cup {[net |-> "ok", code |-> c, msg |-> <<"m1">>, data |-> [t |-> "object", v |-> p]] :
            c \in {Num(0)}, p \in Payloads}

MsgNetworkError == <<"Network Error">>
MsgHttpError    == <<"Request ", "failed", " with status code">>
MsgQueryFailed(m) == <<"Query ", "failed", ": ">> \o m
MsgTypeError    == <<"Cannot read properties of undefined">>
MsgNoImages     == <<"No images found in successful generation result">>
MsgMaxAttempts  == <<"Max polling attempts reached">>
MsgGeneration(p) ==
    <<"Image generation ",
      IF p.generateStatus = FAILED THEN "failed" ELSE "timed out",
      ": ">>
    \o (IF Truthy(p.failReason) THEN p.failReason.v ELSE <<"Unknown reason">>)

\* getComfyStatus: the value it resolves with, or the error it rejects with
getComfyStatus(reply) ==
    IF reply.net = "NetworkError" THEN Threw(MsgNetworkError)
    ELSE IF reply.net = "HttpError" THEN Threw(MsgHttpError)
    ELSE IF reply.code # Num(0) THEN Threw(MsgQueryFailed(reply.msg))
    ELSE Returned(reply.data)

\* TryBody, returning the last image of the list instead of the first
TryBody_LastImage(status) ==
    IF status.t = "undefined" THEN Threw(MsgTypeError)
    ELSE LET p == status.v IN
      IF p.generateStatus = SUCCESS
      THEN IF p.images.t = "array" /\ Len(p.images.v) > 0
           THEN Returned(p.images.v[Len(p.images.v)].imageUrl)
           ELSE Threw(MsgNoImages)
      ELSE IF p.generateStatus \in {FAILED, TIMEOUT}
           THEN Threw(MsgGeneration(p))
           ELSE [kind |-> "sleep"]

\* the body of the try block from the resolved status up to the next await:
\* "sleep" (fall through to the timer), Returned(url) or Threw(message)
TryBody(status) ==
    IF status.t = "undefined" THEN Threw(MsgTypeError)
    ELSE LET p == status.v IN
      IF p.generateStatus = SUCCESS
      THEN IF p.images.t = "array" /\ Len(p.images.v) > 0
           THEN Returned(p.images.v[1].imageUrl)
           ELSE Threw(MsgNoImages)
      ELSE IF p.generateStatus \in {FAILED, TIMEOUT}
           THEN Threw(MsgGeneration(p))
           ELSE [kind |-> "sleep"]

\* CatchRethrows, without the test for 'failed' in the message
CatchRethrows_NoFailed(message, att, maxAtt) ==
    \/ Includes(message, "timed out")
    \/ att = maxAtt

\* CatchRethrows, without the rethrow at the last attempt
CatchRethrows_NoLastAttempt(message, att, maxAtt) ==
    \/ Includes(message, "failed")
    \/ Includes(message, "timed out")

\* the catch block: rethrow (TRUE) or wait and retry (FALSE)
CatchRethrows(message, att, maxAtt) ==
    \/ Includes(message, "failed")
    \/ Includes(message, "timed out")
    \/ att = maxAtt

\* LoopHead, with one pass too many
LoopHead_OffByOne(att, maxAtt) ==
    IF att <= maxAtt + 1
    THEN /\ pollPc' = "query"
         /\ pollResult' = NoResult
    ELSE /\ pollPc' = "done"
         /\ pollResult' = Threw(MsgMaxAttempts)

\* loop head `attempt <= maxAttempts`: next poll, or the throw after the loop
LoopHead(att, maxAtt) ==
    IF att <= maxAtt
    THEN /\ pollPc' = "query"
         /\ pollResult' = NoResult
    ELSE /\ pollPc' = "done"
         /\ pollResult' = Threw(MsgMaxAttempts)

PollInit ==
    /\ pollPc = "idle"
    /\ maxAttempts = 0
    /\ attempt = 0
    /\ polled = <<>>
    /\ sleeps = 0
    /\ interval = 0
    /\ timers = <<>>
    /\ statusReqs = <<>>
    /\ pollResult = NoResult

\* default of the parameter interval
DefaultInterval == 3000

\* delays a caller may pass
Intervals == {DefaultInterval, 1000}

\* TimerFor, with the default delay in place of the parameter
TimerFor_Default(after, ms) == [after |-> after, ms |-> DefaultInterval]

\* new Promise(resolve => setTimeout(resolve, interval)), started after the
\* status query number `after`
TimerFor(after, ms) == [after |-> after, ms |-> ms]

\* the call: for (let attempt = 1; attempt <= maxAttempts; ...)
WaitAppResult(m, ms) ==
    /\ pollPc = "idle"
    /\ maxAttempts' = m
    /\ interval' = ms
    /\ attempt' = 1
    /\ LoopHead(1, m)
    /\ UNCHANGED <<polled, sleeps, timers, statusReqs, signCalls, notPoll>>

\* one status query and the code that runs on its reply, up to the next await:
\* the return, the throw out of the catch block, or the setTimeout of the try
\* body (line 410) or of the catch block (line 428)
Poll(reply) ==
    /\ pollPc = "query"
    /\ signCalls' = signCalls + 1
    /\ statusReqs' = Append(statusReqs,
           [path |-> "/api/generate/comfy/status",
            signatureParams |-> buildSignatureParams("/api/generate/comfy/status", signCalls + 1)])
    /\ polled' = Append(polled, reply)
    /\ LET got == getComfyStatus(reply)
           out == IF got.kind = "threw" THEN got ELSE TryBody(got.value)
       IN  IF out.kind = "returned"
           THEN /\ pollPc' = "done"
                /\ pollResult' = out
                /\ sleeps' = sleeps
                /\ timers' = timers
           ELSE IF out.kind = "threw" /\ CatchRethrows(out.message, attempt, maxAttempts)
           THEN /\ pollPc' = "done"
                /\ pollResult' = out
                /\ sleeps' = sleeps
                /\ timers' = timers
           ELSE /\ pollPc' = "sleep"
                /\ pollResult' = NoResult
                /\ sleeps' = sleeps + 1
                /\ timers' = Append(timers, TimerFor(Len(polled) + 1, interval))
    /\ UNCHANGED <<maxAttempts, attempt, interval, notPoll>>

\* the timer fires: attempt++ and the loop head
Sleep ==
    /\ pollPc = "sleep"
    /\ attempt' = attempt + 1
    /\ LoopHead(attempt + 1, maxAttempts)
    /\ UNCHANGED <<maxAttempts, polled, sleeps, interval, timers, statusReqs, signCalls, notPoll>>

\* ---- a second call of waitAppResult, running beside the first ----

\* the second call's `attempt`, as if it were a field of the service
OtherAttempt_Shared == attempt

\* the second call's `attempt`: `let attempt` of the for statement is local to
\* the call
OtherAttempt == other.attempt

\* loop head `attempt <= maxAttempts` of the second call
OtherLoopHead(att, maxAtt) ==
    IF att <= maxAtt
    THEN [pc |-> "query", result |-> NoResult]
    ELSE [pc |-> "done", result |-> Threw(MsgMaxAttempts)]

OtherInit ==
    other = [pc |-> "idle", maxAttempts |-> 0, attempt |-> 0, polled |-> <<>>,
             reqs |-> <<>>, result |-> NoResult]

OtherWaitAppResult(m) ==
    /\ other.pc = "idle"
    /\ other' = [other EXCEPT !.maxAttempts = m,
                              !.attempt = 1,
                              !.pc = OtherLoopHead(1, m).pc,
                              !.result = OtherLoopHead(1, m).result]
    /\ UNCHANGED <<pollVars, upVars, subVars, signCalls, signVars>>

OtherPoll(reply) ==
    /\ other.pc = "query"
    /\ signCalls' = signCalls + 1
    /\ LET got == getComfyStatus(reply)
           out == IF got.kind = "threw" THEN got ELSE TryBody(got.value)
           ends == \/ out.kind = "returned"
                   \/ /\ out.kind = "threw"
                      /\ CatchRethrows(out.message, OtherAttempt, other.maxAttempts)
       IN  other' = [other EXCEPT
                !.polled = Append(@, reply),
                !.reqs = Append(@,
                    [path |-> "/api/generate/comfy/status",
                     signatureParams |->
                         buildSignatureParams("/api/generate/comfy/status", signCalls + 1)]),
                !.pc = IF ends THEN "done" ELSE "sleep",
                !.result = IF ends THEN out ELSE NoResult]
    /\ UNCHANGED <<pollVars, upVars, subVars, signVars>>

OtherSleep ==
    /\ other.pc = "sleep"
    /\ other' = [other EXCEPT
            !.attempt = OtherAttempt + 1,
            !.pc = OtherLoopHead(OtherAttempt + 1, other.maxAttempts).pc,
            !.result = OtherLoopHead(OtherAttempt + 1, other.maxAttempts).result]
    /\ UNCHANGED <<pollVars, upVars, subVars, signCalls, signVars>>

PollNext ==
    \/ \E m \in (-1)..MaxAttemptsBound, ms \in Intervals : WaitAppResult(m, ms)
    \/ \E reply \in StatusReplies : Poll(reply)
    \/ Sleep

-----------------------------------------------------------------------------
(* uploadFile / getUploadSignature / uploadToOSS *)

\* static ossBaseUrl, and the same literal in getUploadSignature's replace:
\* the scheme character by character, the host name as one fragment
OssBaseUrl ==
    <<"h", "t", "t", "p", "s", ":", "/", "/",
      "liblibai-airship-temp.oss-cn-beijing.aliyuncs.com">>

\* String.prototype.startsWith
StartsWith(s, prefix) ==
    Len(s) >= Len(prefix) /\ SubSeq(s, 1, Len(prefix)) = prefix

\* String.prototype.replace(pattern, replacement) with a string pattern: the
\* first occurrence only
Replace(s, pattern, replacement) ==
    LET at == {i \in 1..(Len(s) - Len(pattern) + 1) :
                  SubSeq(s, i, i + Len(pattern) - 1) = pattern}
    IN  IF at = {} THEN s
        ELSE LET i == CHOOSE j \in at : \A h \in at : j <= h
             IN  SubSeq(s, 1, i - 1) \o replacement \o SubSeq(s, i + Len(pattern), Len(s))

\* String.prototype.toLowerCase, one fragment (character) at a time
LowerChar(c) ==
    CASE c = "J" -> "j"
      [] c = "P" -> "p"
      [] c = "G" -> "g"
      [] c = "E" -> "e"
      [] c = "N" -> "n"
      [] c = "A" -> "a"
      [] OTHER   -> c
ToLowerCase(s) == [i \in 1..Len(s) |-> LowerChar(s[i])]

\* String.prototype.split('.'): the tuple of the pieces between the dots
RECURSIVE SplitFrom(_, _, _)
SplitFrom(s, i, piece) ==
    IF i > Len(s) THEN <<piece>>
    ELSE IF s[i] = "." THEN <<piece>> \o SplitFrom(s, i + 1, <<>>)
    ELSE SplitFrom(s, i + 1, Append(piece, s[i]))
Split(s) == SplitFrom(s, 1, <<>>)

\* Array.prototype.pop: the last element
Pop(a) == a[Len(a)]

JPG  == <<"j", "p", "g">>
JPEG == <<"j", "p", "e", "g">>
PNG  == <<"p", "n", "g">>
IMAGE == <<"i", "m", "a", "g", "e">>

\* filename.split('.').pop()?.toLowerCase() || 'png'
Extension(filename) ==
    LET e == ToLowerCase(Pop(Split(filename)))
    IN  IF e = <<>> THEN PNG ELSE e

\* IsAllowed, with one more accepted type
IsAllowed_Gif(extension) == extension \in {JPG, JPEG, PNG, <<"g", "i", "f">>}

\* ['jpg', 'jpeg', 'png'].includes(extension)
IsAllowed(extension) == extension \in {JPG, JPEG, PNG}

\* NormalizedExtension, passing the extension on as it is
NormalizedExtension_Same(extension) == extension

\* extension === 'jpeg' ? 'jpg' : extension
NormalizedExtension(extension) == IF extension = JPEG THEN JPG ELSE extension

\* filename.split('.')[0] || 'image'
FilenameWithoutExt(filename) ==
    LET b == Split(filename)[1]
    IN  IF b = <<>> THEN IMAGE ELSE b

\* `${filenameWithoutExt}.${normalizedExtension}`
UploadFilename(filename) ==
    FilenameWithoutExt(filename) \o <<".">> \o NormalizedExtension(Extension(filename))

MsgFileType == <<"file type must be jpg, jpeg or png">>   \* '文件类型必须是jpg、jpeg或png'
MsgSignatureFailed(m) == <<"get signature failed: ">> \o m   \* `获取签名失败: ${msg}`
MsgUploadFailed(status, body) ==                          \* `上传失败，状态码: ${status}, 响应: ${body}`
    <<"upload failed, status: ", ToString(status), ", body: ">> \o body

\* upload authorizations (response.data.data) the remote API may answer with
SignatureDatas ==
    {[key |-> Str(<<k>>), postUrl |-> u, xOssExpires |-> e] :
        k \in {"k1", "k2"},
        u \in {Undefined, Str(OssBaseUrl \o <<"/">>)},
        e \in {Undefined, Num(3600)}}

\* what the POST of getUploadSignature may come back with
AuthReplies ==
    {[net |-> "NetworkError"], [net |-> "HttpError"]}
    \cup {[net |-> "ok", code |-> c, msg |-> <<"m1">>, data |-> Undefined] :
            c \in {Num(0), Num(1), Undefined}}
    \cup {[net |-> "ok", code |-> c, msg |-> <<"m1">>, data |-> [t |-> "object", v |-> d]] :
            c \in {Num(0), Num(1)}, d \in SignatureDatas}

\* what the fetch of uploadToOSS may come back with: a rejection, or a response
\* with a status and a body
UploadReplies ==
    {[net |-> "NetworkError"]}
    \cup {[net |-> "ok", status |-> n, body |-> b] :
            n \in {200, 204, 299, 300, 403, 500}, b \in {<<>>, <<"b1">>}}

OssProxy == <<"/", "oss-proxy">>

\* getUploadSignature without the test of response.data.code
getUploadSignature_NoCodeCheck(reply) ==
    IF reply.net = "NetworkError" THEN Threw(MsgNetworkError)
    ELSE IF reply.net = "HttpError" THEN Threw(MsgHttpError)
    ELSE IF reply.data.t = "undefined" THEN Threw(MsgTypeError)
    ELSE LET d == reply.data.v IN
         IF Truthy(d.postUrl)
         THEN Returned([key |-> d.key, xOssExpires |-> d.xOssExpires,
                        originalPostUrl |-> d.postUrl,
                        postUrl |-> Str(Replace(d.postUrl.v, OssBaseUrl, OssProxy))])
         ELSE Returned([key |-> d.key, xOssExpires |-> d.xOssExpires,
                        originalPostUrl |-> Undefined, postUrl |-> d.postUrl])

\* getUploadSignature after its POST: the signatureData it resolves with, or
\* the error it rejects with
getUploadSignature(reply) ==
    IF reply.net = "NetworkError" THEN Threw(MsgNetworkError)
    ELSE IF reply.net = "HttpError" THEN Threw(MsgHttpError)
    ELSE IF reply.code # Num(0) THEN Threw(MsgSignatureFailed(reply.msg))
    ELSE IF reply.data.t = "undefined" THEN Threw(MsgTypeError)
    ELSE LET d == reply.data.v IN
         IF Truthy(d.postUrl)
         THEN Returned([key |-> d.key, xOssExpires |-> d.xOssExpires,
                        originalPostUrl |-> d.postUrl,
                        postUrl |-> Str(Replace(d.postUrl.v, OssBaseUrl, OssProxy))])
         ELSE Returned([key |-> d.key, xOssExpires |-> d.xOssExpires,
                        originalPostUrl |-> Undefined, postUrl |-> d.postUrl])

\* the MIME type uploadToOSS gives the file part
ContentType(filename) ==
    LET e == ToLowerCase(Pop(Split(filename)))
    IN  IF e = JPG \/ e = JPEG THEN "image/jpeg"
        ELSE IF e = PNG THEN "image/png"
        ELSE "application/octet-stream"

\* FormFields, with the file appended before the policy and credential fields
FormFields_FileFirst(signatureData, filename) ==
    << [name |-> "file",
        value |-> [t |-> "blob", type |-> ContentType(filename), filename |-> filename]],
       [name |-> "key",                     value |-> signatureData.key],
       [name |-> "policy",                  value |-> Str(<<"policy">>)],
       [name |-> "x-oss-signature",         value |-> Str(<<"xOssSignature">>)],
       [name |-> "x-oss-credential",        value |-> Str(<<"xOssCredential">>)],
       [name |-> "x-oss-date",              value |-> Str(<<"xOssDate">>)],
       [name |-> "x-oss-expires",           value |-> Str(<<ToString(signatureData.xOssExpires.v)>>)],
       [name |-> "x-oss-signature-version", value |-> Str(<<"xOssSignatureVersion">>)] >>

\* the fields uploadToOSS appends to the FormData, in order
FormFields(signatureData, filename) ==
    << [name |-> "key",                     value |-> signatureData.key],
       [name |-> "policy",                  value |-> Str(<<"policy">>)],
       [name |-> "x-oss-signature",         value |-> Str(<<"xOssSignature">>)],
       [name |-> "x-oss-credential",        value |-> Str(<<"xOssCredential">>)],
       [name |-> "x-oss-date",              value |-> Str(<<"xOssDate">>)],
       [name |-> "x-oss-expires",           value |-> Str(<<ToString(signatureData.xOssExpires.v)>>)],
       [name |-> "x-oss-signature-version", value |-> Str(<<"xOssSignatureVersion">>)],
       [name |-> "file",
        value |-> [t |-> "blob", type |-> ContentType(filename), filename |-> filename]] >>

\* IsSuccessStatus, with the upper end of the range included
IsSuccessStatus_Inclusive(status) == status >= 200 /\ status <= 300

\* response.status >= 200 && response.status < 300
IsSuccessStatus(status) == status >= 200 /\ status < 300

\* uploadToOSS after its fetch: the key it resolves with, or the error
UploadOutcome(reply, signatureData) ==
    IF reply.net = "NetworkError" THEN Threw(MsgNetworkError)
    ELSE IF IsSuccessStatus(reply.status) THEN Returned(signatureData.key)
    ELSE Threw(MsgUploadFailed(reply.status, reply.body))

UpInit ==
    /\ upPc = "idle"
    /\ upFilename = <<>>
    /\ authReqs = <<>>
    /\ authReplies = <<>>
    /\ uploadReqs = <<>>
    /\ uploadReplies = <<>>
    /\ upSig = Undefined
    /\ upResult = NoResult

\* uploadFile up to the await of the POST in getUploadSignature
UploadFile(filename) ==
    /\ upPc = "idle"
    /\ upFilename' = filename
    /\ IF ~IsAllowed(Extension(filename))
       THEN /\ upPc' = "done"
            /\ upResult' = Threw(MsgFileType)
            /\ authReqs' = authReqs
            /\ signCalls' = signCalls
       ELSE /\ upPc' = "auth"
            /\ upResult' = NoResult
            /\ signCalls' = signCalls + 1
            /\ authReqs' = Append(authReqs,
                   [path |-> "/api/generate/upload/signature",
                    signatureParams |->
                        buildSignatureParams("/api/generate/upload/signature", signCalls + 1),
                    name |-> FilenameWithoutExt(filename),
                    extension |-> NormalizedExtension(Extension(filename))])
    /\ UNCHANGED <<authReplies, uploadReqs, uploadReplies, upSig, notUp>>

\* the POST of getUploadSignature settles: the rest of getUploadSignature, and
\* uploadToOSS up to the await of its fetch
AuthReply(reply) ==
    /\ upPc = "auth"
    /\ authReplies' = Append(authReplies, reply)
    /\ LET got == getUploadSignature(reply) IN
       IF got.kind = "threw"
       THEN /\ upPc' = "done"
            /\ upResult' = got
            /\ UNCHANGED <<uploadReqs, upSig>>
       ELSE IF got.value.xOssExpires.t = "undefined"
       THEN \* signatureData.xOssExpires.toString() throws
            /\ upPc' = "done"
            /\ upResult' = Threw(MsgTypeError)
            /\ upSig' = got.value
            /\ UNCHANGED uploadReqs
       ELSE /\ upPc' = "upload"
            /\ upResult' = NoResult
            /\ upSig' = got.value
            /\ uploadReqs' = Append(uploadReqs,
                   [url |-> got.value.postUrl,
                    form |-> FormFields(got.value, UploadFilename(upFilename))])
    /\ UNCHANGED <<upFilename, authReqs, uploadReplies, signCalls, notUp>>

\* the fetch of uploadToOSS settles: the rest of uploadToOSS and of uploadFile
UploadReply(reply) ==
    /\ upPc = "upload"
    /\ uploadReplies' = Append(uploadReplies, reply)
    /\ upPc' = "done"
    /\ LET out == UploadOutcome(reply, upSig) IN
       upResult' = IF out.kind = "returned"
                   THEN Returned([key |-> out.value, ossBaseUrl |-> OssBaseUrl])
                   ELSE out
    /\ UNCHANGED <<upFilename, authReqs, authReplies, uploadReqs, upSig, signCalls, notUp>>

\* file names: up to MaxSegments pieces joined by dots
Pieces == {<<>>, <<"a">>, JPG, <<"J", "P", "G">>, JPEG, PNG, <<"g", "i", "f">>}
RECURSIVE Join(_)
Join(pieces) ==
    IF Len(pieces) = 1 THEN pieces[1]
    ELSE pieces[1] \o <<".">> \o Join(Tail(pieces))
Filenames ==
    {Join(ps) : ps \in UNION {[1..n -> Pieces] : n \in 1..MaxSegments}}

UpNext ==
    \/ \E filename \in Filenames : UploadFile(filename)
    \/ \E reply \in AuthReplies : AuthReply(reply)
    \/ \E reply \in UploadReplies : UploadReply(reply)

-----------------------------------------------------------------------------
(* runComfy / generateImage *)

Null   == [t |-> "null"]
Absent == [t |-> "absent"]      \* a property the object does not have
Obj(fields) == [t |-> "object", v |-> fields]

HTTP == <<"h", "t", "t", "p">>

\* reading a property: undefined when the object does not have it
Get(property) == IF property = Absent THEN Undefined ELSE property

\* a value put into a template literal
TemplateString(x) ==
    CASE x.t = "string"    -> x.v
      [] x.t = "number"    -> <<ToString(x.v)>>
      [] x.t = "undefined" -> <<"undefined">>
      [] x.t = "null"      -> <<"null">>
      [] OTHER             -> <<"[object Object]">>

\* WithBase, testing for the prefix 'https'
WithBase_Https(imageUrl) ==
    IF imageUrl.t = "string" /\ ~StartsWith(imageUrl.v, HTTP \o <<"s">>)
    THEN Str(OssBaseUrl \o <<"/">> \o imageUrl.v)
    ELSE imageUrl

\* WithBase, without the test for a full URL
WithBase_Always(imageUrl) ==
    IF imageUrl.t = "string"
    THEN Str(OssBaseUrl \o <<"/">> \o imageUrl.v)
    ELSE imageUrl

\* if (typeof imageUrl === 'string' && !imageUrl.startsWith('http'))
\*     imageUrl = `${LiblibAIService.ossBaseUrl}/${imageUrl}`
WithBase(imageUrl) ==
    IF imageUrl.t = "string" /\ ~StartsWith(imageUrl.v, HTTP)
    THEN Str(OssBaseUrl \o <<"/">> \o imageUrl.v)
    ELSE imageUrl

MsgInvalidImage == <<"invalid image URL format">>      \* '无效的图片URL格式'
MsgGenerationFailed(m) == <<"Generation ", "failed", ": ">> \o m

\* runComfy's handling of generateParams["190"].inputs.image: the value the
\* request carries, or the error thrown before the request
RunComfyImage(image) ==
    IF ~Truthy(image) THEN Returned(image)
    ELSE IF image.t # "string"
    THEN IF image.t = "object" /\ image.v.key # Absent
         THEN Returned(WithBase(image.v.key))
         ELSE Threw(MsgInvalidImage)
    ELSE Returned(WithBase(image))

\* generateImage's handling of params.uploadedUrl: the image of comfyParams,
\* or the error thrown
GenerateImageUrl(uploadedUrl) ==
    IF uploadedUrl.t # "string"
    THEN IF uploadedUrl.t = "object" /\ Truthy(Get(uploadedUrl.v.key))
         THEN IF Truthy(Get(uploadedUrl.v.ossBaseUrl))
              THEN Returned(WithBase(Str(TemplateString(uploadedUrl.v.ossBaseUrl)
                                         \o <<"/">> \o TemplateString(uploadedUrl.v.key))))
              ELSE Returned(WithBase(Str(OssBaseUrl
                                         \o <<"/">> \o TemplateString(uploadedUrl.v.key))))
         ELSE Threw(MsgInvalidImage)
    ELSE Returned(WithBase(uploadedUrl))

\* image references a caller may pass
SampleKeys ==
    { <<"a", ".", "p", "n", "g">>,
      <<"d", "/", "a">>,
      <<"h", "t", "t", "p", "c", "a", "t", ".", "p", "n", "g">> }
SampleUrls ==
    { OssBaseUrl \o <<"/", "a", ".", "p", "n", "g">>,
      <<"h", "t", "t", "p", ":", "/", "/", "x", "/", "a">> }
SampleStrings == {<<>>} \cup SampleKeys \cup SampleUrls
SampleObjects ==
    {Obj([key |-> k, ossBaseUrl |-> b]) :
        k \in {Absent, Undefined, Num(7)} \cup {Str(x) : x \in SampleStrings},
        b \in {Absent, Str(OssBaseUrl), Str(<<"h", "t", "t", "p", ":", "/", "/", "x">>),
               Str(<<"c", "d", "n">>)}}
ImageRefs ==
    {Undefined, Null, Num(7)} \cup {Str(x) : x \in SampleStrings} \cup SampleObjects

\* what the POST of runComfy may come back with
SubmitReplies ==
    {[net |-> "NetworkError"], [net |-> "HttpError"]}
    \cup {[net |-> "ok", code |-> c, msg |-> <<"m1">>, data |-> d] :
            c \in {Num(0), Num(1), Undefined},
            d \in {Undefined, Obj([generateUuid |-> Str(<<"g1">>)])}}

\* RunComfyOutcome, without the test of response.data.code
RunComfyOutcome_NoCodeCheck(reply) ==
    IF reply.net = "NetworkError" THEN Threw(MsgNetworkError)
    ELSE IF reply.net = "HttpError" THEN Threw(MsgHttpError)
    ELSE IF reply.data.t = "undefined" THEN Threw(MsgTypeError)
    ELSE Returned(reply.data.v.generateUuid)

\* runComfy after its POST: the job identifier it resolves with, or the error
RunComfyOutcome(reply) ==
    IF reply.net = "NetworkError" THEN Threw(MsgNetworkError)
    ELSE IF reply.net = "HttpError" THEN Threw(MsgHttpError)
    ELSE IF reply.code # Num(0) THEN Threw(MsgGenerationFailed(reply.msg))
    ELSE IF reply.data.t = "undefined" THEN Threw(MsgTypeError)
    ELSE Returned(reply.data.v.generateUuid)

SubInit ==
    /\ subPc = "idle"
    /\ subInput = [via |-> "none", image |-> Undefined]
    /\ subReqs = <<>>
    /\ subReplies = <<>>
    /\ subResult = NoResult

\* runComfy from its call up to the await of its POST
RunComfyFrom(via, given, image) ==
    /\ subPc = "idle"
    /\ subInput' = [via |-> via, image |-> given]
    /\ LET out == RunComfyImage(image) IN
       IF out.kind = "threw"
       THEN /\ subPc' = "done"
            /\ subResult' = out
            /\ subReqs' = subReqs
            /\ signCalls' = signCalls
       ELSE /\ subPc' = "submit"
            /\ subResult' = NoResult
            /\ signCalls' = signCalls + 1
            /\ subReqs' = Append(subReqs,
                   [path |-> "/api/generate/comfyui/app",
                    signatureParams |->
                        buildSignatureParams("/api/generate/comfyui/app", signCalls + 1),
                    image |-> out.value])
    /\ UNCHANGED <<subReplies, notSub>>

\* a call of runComfy with the image reference `image` in node "190"
RunComfy(image) == RunComfyFrom("runComfy", image, image)

\* a call of generateImage: its own handling of uploadedUrl, then runComfy on
\* the comfyParams it built
GenerateImage(uploadedUrl) ==
    LET out == GenerateImageUrl(uploadedUrl) IN
    IF out.kind = "threw"
    THEN /\ subPc = "idle"
         /\ subInput' = [via |-> "generateImage", image |-> uploadedUrl]
         /\ subPc' = "done"
         /\ subResult' = out
         /\ UNCHANGED <<subReqs, subReplies, signCalls, notSub>>
    ELSE RunComfyFrom("generateImage", uploadedUrl, out.value)

\* the POST of runComfy settles: the rest of runComfy (and of generateImage)
SubmitReply(reply) ==
    /\ subPc = "submit"
    /\ subReplies' = Append(subReplies, reply)
    /\ subPc' = "done"
    /\ subResult' = RunComfyOutcome(reply)
    /\ UNCHANGED <<subInput, subReqs, signCalls, notSub>>

SubNext ==
    \/ \E image \in ImageRefs : RunComfy(image)
    \/ \E uploadedUrl \in ImageRefs : GenerateImage(uploadedUrl)
    \/ \E reply \in SubmitReplies : SubmitReply(reply)

-----------------------------------------------------------------------------
Init == PollInit /\ UpInit /\ SubInit /\ SignInit /\ OtherInit

SpecPoll == Init /\ [][PollNext]_vars

\* the call is made, every POST settles (axios is given a timeout) and every
\* timer fires
SpecPollFair == SpecPoll /\ WF_vars(PollNext)

SpecUpload == Init /\ [][UpNext]_vars

SpecSubmit == Init /\ [][SubNext]_vars

SpecSign == Init /\ [][SignNext]_vars

\* An upload, a submission and a polling loop of one client, their steps
\* interleaved at the awaits, over a few of the inputs and replies of each.
StatusReply(p) == [net |-> "ok", code |-> Num(0), msg |-> <<"m1">>, data |-> [t |-> "object", v |-> p]]
FlowStatusReplies ==
    {[net |-> "NetworkError"],
     StatusReply([generateStatus |-> PENDING, images |-> Undefined, failReason |-> Undefined]),
     StatusReply([generateStatus |-> SUCCESS, images |-> Arr(<<[imageUrl |-> "u1"]>>),
                  failReason |-> Undefined]),
     StatusReply([generateStatus |-> FAILED, images |-> Undefined, failReason |-> Str(<<"r1">>)])}
FlowFilenames == {<<"a", ".", "p", "n", "g">>, <<"a", ".", "g", "i", "f">>}
FlowAuthReplies ==
    {[net |-> "NetworkError"],
     [net |-> "ok", code |-> Num(0), msg |-> <<"m1">>,
      data |-> [t |-> "object",
                v |-> [key |-> Str(<<"k1">>), postUrl |-> Str(OssBaseUrl \o <<"/">>),
                       xOssExpires |-> Num(3600)]]]}
FlowUploadReplies ==
    {[net |-> "ok", status |-> 200, body |-> <<>>], [net |-> "ok", status |-> 403, body |-> <<>>]}
FlowImageRefs == {Undefined, Str(<<"a", ".", "p", "n", "g">>)}
FlowSubmitReplies ==
    {[net |-> "HttpError"],
     [net |-> "ok", code |-> Num(0), msg |-> <<"m1">>,
      data |-> Obj([generateUuid |-> Str(<<"g1">>)])]}

FlowNext ==
    \/ \E filename \in FlowFilenames : UploadFile(filename)
    \/ \E reply \in FlowAuthReplies : AuthReply(reply)
    \/ \E reply \in FlowUploadReplies : UploadReply(reply)
    \/ \E image \in FlowImageRefs : RunComfy(image)
    \/ \E uploadedUrl \in FlowImageRefs : GenerateImage(uploadedUrl)
    \/ \E reply \in FlowSubmitReplies : SubmitReply(reply)
    \/ \E m \in 1..MaxFlowAttempts : WaitAppResult(m, DefaultInterval)
    \/ \E reply \in FlowStatusReplies : Poll(reply)
    \/ Sleep

SpecFlow == Init /\ [][FlowNext]_vars

\* Two calls of waitAppResult for two jobs, their steps interleaved at the
\* awaits (the status query, the sleep).
TwoStatusReplies ==
    FlowStatusReplies
    \cup {[net |-> "ok", code |-> Undefined, msg |-> <<"m1">>, data |-> Undefined],
          StatusReply([generateStatus |-> SUCCESS, images |-> Arr(<<>>), failReason |-> Undefined])}

TwoNext ==
    \/ \E m \in 0..MaxTwoAttempts : WaitAppResult(m, DefaultInterval)
    \/ \E reply \in TwoStatusReplies : Poll(reply)
    \/ Sleep
    \/ \E m \in 0..MaxTwoAttempts : OtherWaitAppResult(m)
    \/ \E reply \in TwoStatusReplies : OtherPoll(reply)
    \/ OtherSleep

SpecTwoPolls == Init /\ [][TwoNext]_vars

-----------------------------------------------------------------------------
(* Properties of waitAppResult *)

\* the reply carries a parsed status payload
IsParsed(reply) ==
    reply.net = "ok" /\ reply.code = Num(0) /\ reply.data.t = "object"

StatusOf(reply) == reply.data.v.generateStatus

IsFailedOrTimeout(reply) ==
    IsParsed(reply) /\ StatusOf(reply) \in {FAILED, TIMEOUT}

IsNonTerminal(reply) ==
    IsParsed(reply) /\ StatusOf(reply) \in {PENDING, PROCESSING, GENERATED, AUDITING}

IsSuccess(reply) == IsParsed(reply) /\ StatusOf(reply) = SUCCESS

HasImages(reply) ==
    reply.data.v.images.t = "array" /\ Len(reply.data.v.images.v) > 0

\* a failure of the query itself: no response at all, or a response that is
\* not of the expected shape (no code field, or code 0 and no data)
IsNetworkError(reply) == reply.net = "NetworkError"
IsMalformed(reply) ==
    /\ reply.net = "ok"
    /\ \/ reply.code = Undefined
       \/ reply.code = Num(0) /\ reply.data = Undefined
IsTransportFailure(reply) == IsNetworkError(reply) \/ IsMalformed(reply)

\* the message ends with the fragments of r
EndsWith(message, r) ==
    /\ Len(message) >= Len(r)
    /\ SubSeq(message, Len(message) - Len(r) + 1, Len(message)) = r

\* C1: a parsed payload with status Failed or Timeout at attempt k is the last
\* status query of the call: the call has ended with an error that carries the
\* payload's failure reason, and no timer was started after that query (the
\* k-1 earlier queries were each followed by one).
Thm_C1 ==
    \A k \in 1..Len(polled) :
        (maxAttempts >= 1 /\ IsFailedOrTimeout(polled[k])) =>
            /\ k <= maxAttempts
            /\ Len(polled) = k
            /\ pollPc = "done"
            /\ sleeps = k - 1
            /\ pollResult.kind = "threw"
            /\ Truthy(polled[k].data.v.failReason) =>
                   EndsWith(pollResult.message, polled[k].data.v.failReason.v)

\* Failed with a reason at attempt 2 of 3: the call is over after two queries
Wit_C1 ==
    /\ maxAttempts = 3
    /\ Len(polled) = 2
    /\ IsNonTerminal(polled[1])
    /\ IsParsed(polled[2]) /\ StatusOf(polled[2]) = FAILED
    /\ polled[2].data.v.failReason = Str(<<"r1">>)
    /\ pollPc = "done"
    /\ pollResult = Threw(<<"Image generation ", "failed", ": ", "r1">>)

\* C2: k-1 non-terminal statuses followed by Success with a non-empty result
\* list: the call has returned the URL of the first result after exactly k
\* status queries.
Thm_C2 ==
    \A k \in 1..Len(polled) :
        (/\ \A i \in 1..(k - 1) : IsNonTerminal(polled[i])
         /\ IsSuccess(polled[k]) /\ HasImages(polled[k])
         /\ k <= maxAttempts) =>
            /\ Len(polled) = k
            /\ pollPc = "done"
            /\ pollResult = Returned(polled[k].data.v.images.v[1].imageUrl)

\* [Pending, Processing, Success with two results]: the first URL, 3 queries
Wit_C2 ==
    /\ Len(polled) = 3
    /\ IsParsed(polled[1]) /\ StatusOf(polled[1]) = PENDING
    /\ IsParsed(polled[2]) /\ StatusOf(polled[2]) = PROCESSING
    /\ IsSuccess(polled[3])
    /\ polled[3].data.v.images = Arr(<<[imageUrl |-> "u2"], [imageUrl |-> "u1"]>>)
    /\ pollPc = "done"
    /\ pollResult = Returned("u2")

\* C3 (as claimed): Success with a missing or empty result list at attempt k
\* ends the call with an error, and no status query follows it.
Cex_C3 ==
    \A k \in 1..Len(polled) :
        (IsSuccess(polled[k]) /\ ~HasImages(polled[k])) =>
            /\ Len(polled) = k
            /\ pollPc = "done"
            /\ pollResult.kind = "threw"

\* C4 (as claimed): a transport-level failure (network error or malformed
\* response) at attempt k < maxAttempts does not end the call.
Cex_C4 ==
    \A k \in 1..Len(polled) :
        (IsTransportFailure(polled[k]) /\ k < maxAttempts) =>
            ~(pollPc = "done" /\ Len(polled) = k)

\* all maxAttempts attempts were used and each returned a non-terminal status
\* or failed at transport level
Exhausted ==
    /\ pollPc = "done"
    /\ maxAttempts >= 1
    /\ Len(polled) = maxAttempts
    /\ \A i \in 1..Len(polled) : IsNonTerminal(polled[i]) \/ IsTransportFailure(polled[i])

\* C5 (as claimed): exhausting the attempts without a terminal state ends the
\* call with 'Max polling attempts reached'.
Cex_C5 == Exhausted => pollResult = Threw(MsgMaxAttempts)

\* C5 (amended): exhausting the attempts without a terminal state ends the call
\* with an error, never with a URL: 'Max polling attempts reached' when the
\* last attempt returned a non-terminal status, the last attempt's own error
\* when that attempt failed.
Thm_C5 ==
    Exhausted =>
        LET last == polled[Len(polled)] IN
        /\ pollResult.kind = "threw"
        /\ IsNonTerminal(last) => pollResult.message = MsgMaxAttempts
        /\ IsNetworkError(last) => pollResult.message = MsgNetworkError
        /\ IsMalformed(last) =>
               pollResult.message \in {MsgTypeError, MsgQueryFailed(last.msg)}

\* two non-terminal statuses, then a network error at the last attempt
Wit_C5 ==
    /\ maxAttempts = 3
    /\ Exhausted
    /\ IsNonTerminal(polled[1]) /\ IsNonTerminal(polled[2])
    /\ IsNetworkError(polled[3])
    /\ pollResult = Threw(MsgNetworkError)

-----------------------------------------------------------------------------
(* Properties of uploadFile *)

HasDot(filename) == \E i \in DOMAIN filename : filename[i] = "."

\* the text after the last dot of a file name that has one
AfterLastDot(filename) ==
    LET i == CHOOSE j \in DOMAIN filename :
                 filename[j] = "." /\ \A h \in (j + 1)..Len(filename) : filename[h] # "."
    IN  SubSeq(filename, i + 1, Len(filename))

\* the call ended with the file type error and no request was issued
RejectedUnsent ==
    /\ upPc = "done"
    /\ upResult = Threw(MsgFileType)
    /\ authReqs = <<>>
    /\ uploadReqs = <<>>

\* C6 (as claimed): a file name with no dot, or whose text after the last dot,
\* lowercased, is not jpg, jpeg or png (the empty text included), is rejected
\* before any request.
Cex_C6 ==
    (/\ upPc # "idle"
     /\ \/ ~HasDot(upFilename)
        \/ ToLowerCase(AfterLastDot(upFilename)) \notin {JPG, JPEG, PNG})
    => RejectedUnsent

\* the last dot-separated piece of the name (the whole name when it has no dot)
LastPiece(filename) ==
    IF HasDot(filename) THEN AfterLastDot(filename) ELSE filename

\* C6 (amended): a file name whose last dot-separated piece (the whole name
\* when it has no dot), lowercased, is not empty and not jpg, jpeg or png is
\* rejected before any request; a name whose last piece is empty is taken as
\* png, and is not rejected, like every name whose last piece is jpg, jpeg or png.
Thm_C6 ==
    upPc # "idle" =>
        LET e == ToLowerCase(LastPiece(upFilename)) IN
        IF e # <<>> /\ e \notin {JPG, JPEG, PNG}
        THEN RejectedUnsent
        ELSE /\ Len(authReqs) = 1
             /\ upResult # Threw(MsgFileType)
             /\ e = <<>> => authReqs[1].extension = PNG

\* "a.gif" was rejected and nothing was sent
Wit_C6 ==
    /\ upFilename = <<"a", ".", "g", "i", "f">>
    /\ RejectedUnsent

\* C7: the authorization is requested with the canonical extension (jpg for
\* jpg and jpeg in any case, png for png), and the file name of the storage
\* upload ends with a dot and exactly the extension of the authorization request.
Thm_C7 ==
    /\ Len(authReqs) >= 1 =>
         LET e == ToLowerCase(LastPiece(upFilename))
             sent == authReqs[1].extension
         IN  /\ e \in {JPG, JPEG} => sent = JPG
             /\ e = PNG => sent = PNG
             /\ sent \in {JPG, PNG}
    /\ Len(uploadReqs) >= 1 =>
         LET form == uploadReqs[1].form
             name == form[Len(form)].value.filename
         IN  /\ form[Len(form)].name = "file"
             /\ HasDot(name)
             /\ AfterLastDot(name) = authReqs[1].extension

\* "a.JPG.jpeg" was authorized as jpg and uploaded as "a.jpg"
Wit_C7 ==
    /\ upFilename = <<"a", ".", "J", "P", "G", ".", "j", "p", "e", "g">>
    /\ Len(authReqs) = 1 /\ authReqs[1].extension = JPG
    /\ Len(uploadReqs) = 1
    /\ uploadReqs[1].form[8].value.filename = <<"a", ".", "j", "p", "g">>

\* C8: a call on an accepted file name issues exactly one authorization
\* request and at most one storage upload; the upload is issued only after
\* the authorization request was answered with code 0; after a failed or
\* rejected authorization no upload is issued, and a failure of either step
\* ends the call with that step's error, neither request being repeated.
Thm_C8 ==
    (upPc # "idle" /\ ~RejectedUnsent) =>
        /\ Len(authReqs) = 1
        /\ Len(authReplies) <= 1
        /\ Len(uploadReqs) <= 1
        /\ Len(uploadReplies) <= Len(uploadReqs)
        /\ Len(uploadReqs) = 1 =>
               /\ Len(authReplies) = 1
               /\ authReplies[1].net = "ok"
               /\ authReplies[1].code = Num(0)
        /\ (Len(authReplies) = 1 /\ getUploadSignature(authReplies[1]).kind = "threw") =>
               /\ uploadReqs = <<>>
               /\ upPc = "done"
               /\ upResult = getUploadSignature(authReplies[1])
        /\ (Len(uploadReplies) = 1
              /\ UploadOutcome(uploadReplies[1], upSig).kind = "threw") =>
               /\ upPc = "done"
               /\ upResult = UploadOutcome(uploadReplies[1], upSig)

\* the authorization was rejected with a non-zero code although it came with
\* authorization data: the call is over without an upload
Wit_C8 ==
    /\ Len(authReqs) = 1 /\ Len(authReplies) = 1
    /\ authReplies[1].net = "ok"
    /\ authReplies[1].code = Num(1)
    /\ authReplies[1].data.t = "object"
    /\ uploadReqs = <<>>
    /\ upPc = "done"
    /\ upResult = Threw(MsgSignatureFailed(<<"m1">>))

\* C9: the upload returns the object key of the authorization if and only if
\* the storage endpoint answered with a status in 200..299; for every other
\* status the call ends with an error carrying the status and the response
\* body, and returns no key.
Thm_C9 ==
    (Len(uploadReplies) = 1 /\ uploadReplies[1].net = "ok") =>
        LET r == uploadReplies[1] IN
        /\ upPc = "done"
        /\ (r.status >= 200 /\ r.status <= 299) <=> upResult.kind = "returned"
        /\ upResult.kind = "returned" =>
               /\ upResult.value.key = authReplies[1].data.v.key
               /\ upResult.value.key = uploadReqs[1].form[1].value
        /\ ~(r.status >= 200 /\ r.status <= 299) =>
               /\ upResult.kind = "threw"
               /\ Includes(upResult.message, ToString(r.status))
               /\ EndsWith(upResult.message, r.body)

\* the storage endpoint answered 300 with a body: an error, no key
Wit_C9 ==
    /\ Len(uploadReplies) = 1
    /\ uploadReplies[1] = [net |-> "ok", status |-> 300, body |-> <<"b1">>]
    /\ upPc = "done"
    /\ upResult = Threw(<<"upload failed, status: ", "300", ", body: ", "b1">>)

-----------------------------------------------------------------------------
(* Properties of runComfy / generateImage *)

\* a fully-qualified URL
IsFullUrl(x) ==
    \/ StartsWith(x, <<"h", "t", "t", "p", ":", "/", "/">>)
    \/ StartsWith(x, <<"h", "t", "t", "p", "s", ":", "/", "/">>)

\* a bare storage key
IsBareKey(x) == x.t = "string" /\ x.v # <<>> /\ ~IsFullUrl(x.v)

\* the image reference the call was given is a bare key, as a string or as an
\* object carrying the key (and no storage base of its own other than the
\* known one)
GivenBareKey ==
    LET r == subInput.image IN
    \/ IsBareKey(r)
    \/ /\ r.t = "object"
       /\ r.v.key # Absent /\ IsBareKey(r.v.key)
       /\ r.v.ossBaseUrl \in {Absent, Str(OssBaseUrl)}
GivenKey ==
    LET r == subInput.image IN IF r.t = "string" THEN r.v ELSE r.v.key.v

GivenFullUrl == subInput.image.t = "string" /\ IsFullUrl(subInput.image.v)

\* C10 (as claimed): a submission whose image reference is a bare storage key,
\* given as a string or as an object carrying a key, is sent with
\* '<storageBase>/<key>' as the image reference; a reference that is a
\* fully-qualified URL is sent unchanged.
Cex_C10 ==
    \A i \in DOMAIN subReqs :
        /\ GivenBareKey => subReqs[i].image = Str(OssBaseUrl \o <<"/">> \o GivenKey)
        /\ GivenFullUrl => subReqs[i].image = subInput.image

\* C11: runComfy returns a job identifier only when the submission was
\* answered with code 0, and then the identifier of the answer; a non-zero (or
\* missing) code ends the call with an error and no identifier; a call issues
\* one submission request and never repeats it.
Thm_C11 ==
    /\ Len(subReqs) <= 1
    /\ Len(subReplies) <= Len(subReqs)
    /\ subPc \in {"submit", "done"} /\ Len(subReplies) = 1 => Len(subReqs) = 1
    /\ subResult.kind = "returned" =>
           /\ Len(subReplies) = 1
           /\ subReplies[1].net = "ok"
           /\ subReplies[1].code = Num(0)
           /\ subResult.value = subReplies[1].data.v.generateUuid
    /\ (Len(subReplies) = 1 /\ subReplies[1].net = "ok" /\ subReplies[1].code # Num(0)) =>
           /\ subPc = "done"
           /\ subResult = Threw(MsgGenerationFailed(subReplies[1].msg))
           /\ Len(subReqs) = 1

\* the submission was answered with code 1 and a job identifier all the same:
\* the call ended with the error
Wit_C11 ==
    /\ Len(subReqs) = 1 /\ Len(subReplies) = 1
    /\ subReplies[1].net = "ok"
    /\ subReplies[1].code = Num(1)
    /\ subReplies[1].data = Obj([generateUuid |-> Str(<<"g1">>)])
    /\ subPc = "done"
    /\ subResult = Threw(<<"Generation ", "failed", ": ", "m1">>)

\* an error raised by the status call itself: axios rejected (no response, or
\* an HTTP error response), or getComfyStatus threw for a code other than 0
IsCallError(reply) == reply.net # "ok" \/ reply.code # Num(0)

\* C15 (as claimed): an error raised by the status call itself at attempt
\* k < maxAttempts is followed by attempt k+1, and a call that ends with an
\* error before the attempt ceiling ends on a parsed Failed or Timeout payload.
Cex_C15 ==
    /\ \A k \in 1..Len(polled) :
           (IsCallError(polled[k]) /\ k < maxAttempts) =>
               ~(pollPc = "done" /\ Len(polled) = k)
    /\ (pollPc = "done" /\ pollResult.kind = "threw"
          /\ Len(polled) >= 1 /\ Len(polled) < maxAttempts
          /\ ~IsSuccess(polled[Len(polled)])) =>
           IsFailedOrTimeout(polled[Len(polled)])

\* an image reference that is there and is neither a string nor an object
\* carrying a string key
IsMalformedRef(x) ==
    /\ x.t \notin {"undefined", "null", "string"}
    /\ ~(x.t = "object" /\ x.v.key # Absent /\ x.v.key.t = "string")

\* C16 (as claimed): a call of runComfy or generateImage with a malformed
\* image reference ends with an error and issues no request.
Cex_C16 ==
    (subPc # "idle" /\ IsMalformedRef(subInput.image)) =>
        /\ subReqs = <<>>
        /\ subPc = "done"
        /\ subResult.kind = "threw"

PolicyFieldNames ==
    {"key", "policy", "x-oss-signature", "x-oss-credential", "x-oss-date",
     "x-oss-expires", "x-oss-signature-version"}

\* C18: in the form of every storage upload that is sent, the file field is
\* the last field and is there once, and each of the seven policy and
\* credential fields comes before it.
Thm_C18 ==
    \A i \in DOMAIN uploadReqs :
        LET form == uploadReqs[i].form IN
        /\ form[Len(form)].name = "file"
        /\ Cardinality({j \in DOMAIN form : form[j].name = "file"}) = 1
        /\ \A n \in PolicyFieldNames :
               \E j \in 1..(Len(form) - 1) : form[j].name = n

\* the upload of "a.png" is in flight with its eight fields, the file last
Wit_C18 ==
    /\ upPc = "upload"
    /\ upFilename = <<"a", ".", "p", "n", "g">>
    /\ Len(uploadReqs) = 1
    /\ Len(uploadReqs[1].form) = 8
    /\ uploadReqs[1].form[8].name = "file"
    /\ uploadReqs[1].form[8].value.type = "image/png"

\* C20: normalizing an image reference twice gives what normalizing it once
\* gives, in runComfy's own handling and for the storage-base prefixing; so a
\* string reference that went through generateImage and then runComfy is sent
\* either unchanged or with the storage base prefixed once.
Thm_C20 ==
    (subPc # "idle" /\ subInput.image.t = "string") =>
        LET r == subInput.image IN
        /\ WithBase(WithBase(r)) = WithBase(r)
        /\ RunComfyImage(RunComfyImage(r).value) = RunComfyImage(r)
        /\ RunComfyImage(GenerateImageUrl(r).value) = GenerateImageUrl(r)
        /\ subInput.via = "generateImage" =>
               \A i \in DOMAIN subReqs :
                   subReqs[i].image \in {r, Str(OssBaseUrl \o <<"/">> \o r.v)}

\* generateImage was given the bare key "a.png" and sent it with one prefix
Wit_C20 ==
    /\ subInput = [via |-> "generateImage", image |-> Str(<<"a", ".", "p", "n", "g">>)]
    /\ Len(subReqs) = 1
    /\ subReqs[1].image = Str(OssBaseUrl \o <<"/", "a", ".", "p", "n", "g">>)

\* the timers started after status query number k
TimersAfter(k) == {i \in DOMAIN timers : timers[i].after = k}

\* C17: every status query that is followed by another one is followed by
\* exactly one wait, of the configured interval, whether it returned a
\* non-terminal status or failed and is retried; every wait follows a query;
\* and no wait is started after a query that ends the call with a returned
\* URL or with the error of a Failed or Timeout payload.
Thm_C17 ==
    /\ \A k \in 1..Len(polled) :
           (k < Len(polled) \/ pollPc = "query") =>
               /\ Cardinality(TimersAfter(k)) = 1
               /\ \A i \in TimersAfter(k) : timers[i].ms = interval
    /\ \A i \in DOMAIN timers : timers[i].after \in 1..Len(polled)
    /\ sleeps = Len(timers)
    /\ (pollPc = "done" /\ Len(polled) >= 1
          /\ \/ pollResult.kind = "returned"
             \/ IsFailedOrTimeout(polled[Len(polled)])) =>
           TimersAfter(Len(polled)) = {}

\* a network error, one wait of 1000 ms, then a query that returned a URL
Wit_C17 ==
    /\ interval = 1000
    /\ Len(polled) = 2
    /\ IsNetworkError(polled[1])
    /\ timers = <<[after |-> 1, ms |-> 1000]>>
    /\ pollPc = "done"
    /\ pollResult = Returned("u1")

Max0(n) == IF n > 0 THEN n ELSE 0

\* what C19 says of every state of a call
PollBounded ==
    pollPc # "idle" =>
        /\ Len(polled) <= Max0(maxAttempts)
        /\ Len(timers) <= Len(polled)
        /\ pollResult.kind = "returned" =>
               /\ pollPc = "done"
               /\ Len(polled) >= 1
               /\ IsSuccess(polled[Len(polled)]) /\ HasImages(polled[Len(polled)])
        /\ maxAttempts <= 0 =>
               /\ polled = <<>>
               /\ pollPc = "done"
               /\ pollResult = Threw(MsgMaxAttempts)

\* C19: for every maxAttempts, zero and negative ones included, and whatever
\* the status queries come back with, waitAppResult issues at most
\* max(maxAttempts, 0) status queries, ends, and returns a URL only if its last
\* status query returned Success with a non-empty result list; with
\* maxAttempts <= 0 it issues no query and ends with 'Max polling attempts
\* reached'.
Thm_C19 == []PollBounded /\ <>(pollPc = "done")

\* a call with maxAttempts = -1 ended at once, without a query
Wit_C19 ==
    /\ maxAttempts = -1
    /\ pollPc = "done"
    /\ polled = <<>>
    /\ timers = <<>>
    /\ pollResult = Threw(MsgMaxAttempts)

\* number of '=' at the end of s
RECURSIVE TrailingEquals(_)
TrailingEquals(s) ==
    IF s # <<>> /\ s[Len(s)] = "=" THEN 1 + TrailingEquals(SubSeq(s, 1, Len(s) - 1)) ELSE 0

\* C13: the signature made of a standard base64 digest has no '+', '/' or
\* '=': it is the digest without its trailing '=', with '-' where the digest
\* has '+', '_' where it has '/', and every other character where it was.
Thm_C13 ==
    signed =>
        /\ Len(signature) = Len(digest) - TrailingEquals(digest)
        /\ \A i \in 1..Len(signature) :
              /\ signature[i] \notin {"+", "/", "="}
              /\ digest[i] = "+" => signature[i] = "-"
              /\ digest[i] = "/" => signature[i] = "_"
              /\ digest[i] \notin {"+", "/"} => signature[i] = digest[i]

Wit_C13 ==
    /\ signed
    /\ digest = <<"+", "+", "/", "=", "=">>
    /\ signature = <<"-", "-", "_">>

\* every signed request sent so far, in the order of its method
SignedRequests ==
    [i \in 1..Len(authReqs) |-> [path |-> authReqs[i].path, signatureParams |-> authReqs[i].signatureParams]]
    \o [i \in 1..Len(subReqs) |-> [path |-> subReqs[i].path, signatureParams |-> subReqs[i].signatureParams]]
    \o statusReqs

\* C12: every signed request (upload authorization, job submission, each
\* status query of a polling loop) carries the parameters of its own call of the
\* signer: there are as many signer calls as requests, each request's signature
\* is over its own path, and no two requests carry the parameters of one call.
Thm_C12 ==
    /\ Len(SignedRequests) = signCalls
    /\ \A i \in 1..Len(SignedRequests) :
          LET p == SignedRequests[i].signatureParams IN
          /\ p.Signature.of = SignedRequests[i].path
          /\ p.Signature.timestamp = p.Timestamp
          /\ p.Signature.signatureNonce = p.SignatureNonce
          /\ p.Timestamp \in 1..signCalls
          /\ \A j \in 1..Len(SignedRequests) :
                i # j => SignedRequests[j].signatureParams # p

Wit_C12 ==
    /\ Len(authReqs) = 1
    /\ Len(subReqs) = 1
    /\ Len(statusReqs) = 3
    /\ polled[1].net = "NetworkError"
    /\ statusReqs[2].signatureParams # statusReqs[1].signatureParams

\* the two calls, as records of the same shape
Loops ==
    <<[pc |-> pollPc, maxAttempts |-> maxAttempts, attempt |-> attempt,
       polled |-> polled, result |-> pollResult],
      [pc |-> other.pc, maxAttempts |-> other.maxAttempts, attempt |-> other.attempt,
       polled |-> other.polled, result |-> other.result]>>

\* where a call of waitAppResult that runs alone stands once the replies to its
\* queries, and the sleeps after them, are over
RECURSIVE AloneFrom(_, _, _)
AloneFrom(att, maxAtt, replies) ==
    IF att > maxAtt
    THEN [pc |-> "done", attempt |-> att, result |-> Threw(MsgMaxAttempts), queries |-> 0]
    ELSE IF replies = <<>>
    THEN [pc |-> "query", attempt |-> att, result |-> NoResult, queries |-> 0]
    ELSE LET got == getComfyStatus(Head(replies))
             out == IF got.kind = "threw" THEN got ELSE TryBody(got.value)
         IN  IF \/ out.kind = "returned"
                \/ out.kind = "threw" /\ CatchRethrows(out.message, att, maxAtt)
             THEN [pc |-> "done", attempt |-> att, result |-> out, queries |-> 1]
             ELSE [AloneFrom(att + 1, maxAtt, Tail(replies)) EXCEPT !.queries = @ + 1]

\* a call that sleeps, seen when its timer has fired
Settled(l) ==
    IF l.pc # "sleep" THEN l
    ELSE IF l.attempt + 1 <= l.maxAttempts
    THEN [l EXCEPT !.attempt = @ + 1, !.pc = "query"]
    ELSE [l EXCEPT !.attempt = @ + 1, !.pc = "done", !.result = Threw(MsgMaxAttempts)]

\* C14: of two waitAppResult calls interleaved at their awaits, each has the
\* attempt count, the number of status queries and the outcome that a call
\* running alone has on the same replies to its own queries.
Thm_C14 ==
    \A k \in 1..2 :
        Loops[k].pc # "idle" =>
            LET alone == AloneFrom(1, Loops[k].maxAttempts, Loops[k].polled)
                here  == Settled(Loops[k])
            IN  /\ here.pc = alone.pc
                /\ here.attempt = alone.attempt
                /\ here.result = alone.result
                /\ Len(here.polled) = alone.queries

\* both calls ended after a retry each, their queries alternating, with
\* different outcomes
Wit_C14 ==
    /\ pollPc = "done" /\ pollResult = Returned("u1") /\ attempt = 2
    /\ other.pc = "done" /\ other.result = Threw(MsgMaxAttempts) /\ other.attempt = 2
    /\ other.maxAttempts = 1
    /\ Len(statusReqs) = 2 /\ Len(other.reqs) = 1
    /\ statusReqs[1].signatureParams.Timestamp = 1
    /\ other.reqs[1].signatureParams.Timestamp = 2
    /\ statusReqs[2].signatureParams.Timestamp = 3

=============================================================================
